---------------------------- MODULE Spec2Model ----------------------------
(***************************************************************************)
(* PyViewDock: the 'Docked' registry of docking entries (docked.py), the   *)
(* command wrappers that feed it (io.py) and the rename hook (misc.py),    *)
(* together with the part of the PyMOL host they call: the table of named  *)
(* multi-state objects.                                                    *)
(*                                                                         *)
(* Conventions.                                                            *)
(*  - Python list indices are 0-based; positions here are 1-based, so the  *)
(*    Python index n is position n+1 and find()'s None is NotFound.         *)
(*  - A Python value (str, int/float, None) is a tagged record Str(s),     *)
(*    Num(n), None, so that '==' between values of different Python types  *)
(*    is plain equality of records (2.0 == 2 is Num(2) = Num(2)).          *)
(*  - A host object is a sequence of states; a state holds a geometry,     *)
(*    named by the object and state it was first loaded as.                *)
(***************************************************************************)
EXTENDS Integers, Sequences, FiniteSets, TLC

VARIABLES
    entries,    \* Docked.entries of the handle in use: sequence of
                \* [object, state, remarks]
    host,       \* PyMOL objects: name -> sequence of geometries
    last,       \* the command that has just run, its arguments and its outcome;
                \* last.op = "" when the host is idle
    loads,      \* the number of commands run so far that add entries: loads and copies
    session,    \* pymol.session.PyViewDock: what the session stores of the registry
    gui         \* the table window: the list 'headers', the set available_headers
                \* and the columns the last draw_table displayed

vars == <<entries, host, last, loads, session, gui>>

(***************************************************************************)
(* Bounds of the model.                                                    *)
(***************************************************************************)
MaxEntries == 5
MaxLoads == 2
\* the longest list 'headers' the Columns menu is followed to
MaxHeaders == 5

(***************************************************************************)
(* Python values.                                                          *)
(***************************************************************************)
Str(s) == [t |-> "str", s |-> s, n |-> 0]
Num(n) == [t |-> "num", s |-> "", n |-> n]
None == [t |-> "none", s |-> "", n |-> 0]

NotFound == 0

EmptyRemarks == [k \in {} |-> None]

\* d[key] = value on a dict
DictSet(d, key, value) ==
    [k \in DOMAIN d \cup {key} |-> IF k = key THEN value ELSE d[k]]

\* d.setdefault(key, value)
SetDefault(d, key, value) ==
    [k \in DOMAIN d \cup {key} |-> IF k \in DOMAIN d THEN d[k] ELSE value]

Entry(object, state, remarks) ==
    [object |-> object, state |-> state, remarks |-> remarks]

Range(s) == {s[i] : i \in DOMAIN s}

\* the subsequence of s at the positions that satisfy Keep, in order
RECURSIVE SelectPos(_, _, _)
SelectPos(s, keep, i) ==
    IF i > Len(s) THEN <<>>
    ELSE (IF i \in keep THEN <<s[i]>> ELSE <<>>) \o SelectPos(s, keep, i + 1)

(***************************************************************************)
(* The host (pymol.cmd) as far as the plug-in uses it.                     *)
(***************************************************************************)
\* cmd.get_names('objects')
get_names(h) == DOMAIN h

\* cmd.delete(name)
HostDelete(h, name) == [o \in DOMAIN h \ {name} |-> h[o]]

HostPut(h, name, states) ==
    [o \in DOMAIN h \cup {name} |-> IF o = name THEN states ELSE h[o]]

\* the states a selection "object src" has in source_state (0: all states)
SourceStates(h, src, source_state) ==
    IF source_state = 0 THEN h[src]
    ELSE IF source_state \in 1..Len(h[src]) THEN <<h[src][source_state]>>
    ELSE <<>>

\* cmd.create(name, "object src", source_state, target_state), src a host object.
\* target_state -1 appends the copied states; otherwise a new object gets the
\* copied states and an existing one has its state target_state overwritten.
\* A source state the object does not have copies nothing.
HostCreate(h, name, src, source_state, target_state) ==
    LET add == SourceStates(h, src, source_state)
        old == IF name \in DOMAIN h THEN h[name] ELSE <<>>
        at == IF target_state = 0 THEN 1 ELSE target_state
        new == IF target_state = -1 THEN old \o add
               ELSE IF old = <<>> THEN add
               ELSE IF add = <<>> THEN old
               ELSE [i \in 1..(IF Len(old) > at THEN Len(old) ELSE at) |->
                        IF i = at THEN add[1]
                        ELSE IF i <= Len(old) THEN old[i] ELSE add[1]]
    IN HostPut(h, name, new)

\* cmd.read_pdbstr / importing.load of k models into name: k states are appended
HostLoad(h, name, k) ==
    IF k = 0 THEN h
    ELSE LET old == IF name \in DOMAIN h THEN h[name] ELSE <<>>
         IN HostPut(h, name,
                old \o [i \in 1..k |-> [src |-> name, n |-> Len(old) + i]])

\* misc.non_repeated_object: name, or name_2, name_3, ... when it is taken
RECURSIVE NonRepeatedFrom(_, _, _)
NonRepeatedFrom(h, object, n) ==
    IF (object \o "_" \o ToString(n)) \in get_names(h)
    THEN NonRepeatedFrom(h, object, n + 1)
    ELSE object \o "_" \o ToString(n)

non_repeated_object(h, object) ==
    IF object \in get_names(h) THEN NonRepeatedFrom(h, object, 2) ELSE object

(***************************************************************************)
(* Docked: properties and queries.                                         *)
(***************************************************************************)
\* Docked.objects
objects(es) == {es[i].object : i \in DOMAIN es}

\* Docked.remarks
remarks(es) == UNION {DOMAIN es[i].remarks : i \in DOMAIN es}

\* one element of Docked.entries_unified: {**entry['internal'], **entry['remarks']}
Unified(e) ==
    [k \in {"object", "state"} \cup DOMAIN e.remarks |->
        IF k \in DOMAIN e.remarks THEN e.remarks[k]
        ELSE IF k = "object" THEN Str(e.object) ELSE Num(e.state)]

entries_unified(es) == [i \in DOMAIN es |-> Unified(es[i])]

\* matcher(entry[key] == value for key, value in criteria.items())
Matches(u, match_all, crit) ==
    IF match_all THEN \A k \in DOMAIN crit : u[k] = crit[k]
    ELSE \E k \in DOMAIN crit : u[k] = crit[k]

\* a findall that takes any key
ValidCriteria_unchecked(es, crit) == TRUE

\* the check of the input fields of findall
ValidCriteria(es, crit) == (DOMAIN crit \ remarks(es)) \ {"object", "state"} = {}

\* entry[key] raises KeyError when an entry lacks a criterion's key
CriteriaDefined(es, crit) ==
    \A i \in DOMAIN es : DOMAIN crit \subseteq DOMAIN Unified(es[i])

\* Docked.findall: the matching positions in ascending order, or an error
findall(es, match_all, crit) ==
    IF ~ValidCriteria(es, crit) THEN [err |-> "ValueError", idx |-> <<>>]
    ELSE IF ~CriteriaDefined(es, crit) THEN [err |-> "KeyError", idx |-> <<>>]
    ELSE LET u == entries_unified(es)
         IN [err |-> "",
             idx |-> SelectPos([i \in DOMAIN es |-> i],
                               {i \in DOMAIN es : Matches(u[i], match_all, crit)}, 1)]

\* a find that answers with the highest matching index
find_last(es, match_all, crit) ==
    LET m == findall(es, match_all, crit)
    IN [err |-> m.err,
        ndx |-> IF m.idx # <<>> THEN m.idx[Len(m.idx)] ELSE NotFound]

\* Docked.find: matching_index[0], or None
find(es, match_all, crit) ==
    LET m == findall(es, match_all, crit)
    IN [err |-> m.err,
        ndx |-> IF m.idx # <<>> THEN m.idx[1] ELSE NotFound]

ObjectCriterion(object) == [k \in {"object"} |-> Str(object)]

(***************************************************************************)
(* Docked: removal.  A world w is the pair [entries, host] an operation    *)
(* reads and writes; err names the exception that ended it, "" for none.   *)
(***************************************************************************)
World(es, h, err) == [entries |-> es, host |-> h, err |-> err]

DeleteAt(s, ndx) == SubSeq(s, 1, ndx - 1) \o SubSeq(s, ndx + 1, Len(s))

\* the loop of remove_ndx over the entries findall(object=object) returns:
\* each appends its state of the temporary copy to the rebuilt object
RECURSIVE Recreate(_, _, _, _, _, _)
Recreate(h, object, tmp_object, es, idx, k) ==
    IF k > Len(idx) THEN h
    ELSE Recreate(HostCreate(h, object, tmp_object, es[idx[k]].state, -1),
                  object, tmp_object, es, idx, k + 1)

\* entry['internal']['state'] -= int(entry_state > state), for the entries of idx
Renumber(es, idx, state, update) ==
    [i \in DOMAIN es |->
        IF update /\ i \in Range(idx) /\ es[i].state > state
        THEN [es[i] EXCEPT !.state = @ - 1]
        ELSE es[i]]

\* a remove_ndx that renumbers the siblings whether the host knows the object or not
remove_ndx_renumbering(w, ndx, update) ==
    LET state == w.entries[ndx].state
        es == DeleteAt(w.entries, ndx)
        idx == findall(es, TRUE, ObjectCriterion(w.entries[ndx].object)).idx
    IN World(Renumber(es, idx, state, update), w.host, "")

\* Docked.remove_ndx(ndx, update)
remove_ndx(w, ndx, update) ==
    LET object == w.entries[ndx].object
        state == w.entries[ndx].state
        es == DeleteAt(w.entries, ndx)
    IN IF object \in get_names(w.host)
       THEN LET tmp_object == non_repeated_object(w.host, "tmp")
                h1 == HostDelete(HostCreate(w.host, tmp_object, object, 0, 0), object)
                idx == findall(es, TRUE, ObjectCriterion(object)).idx
                h2 == Recreate(h1, object, tmp_object, es, idx, 1)
            IN World(Renumber(es, idx, state, update), HostDelete(h2, tmp_object), "")
       ELSE World(es, w.host, "")

\* a batch removal that walks the indices in ascending order
RECURSIVE RemoveAscendingFrom(_, _, _)
RemoveAscendingFrom(w, idx, j) ==
    IF j > Len(idx) THEN w
    ELSE RemoveAscendingFrom(IF idx[j] \in DOMAIN w.entries
                             THEN remove_ndx(w, idx[j], TRUE) ELSE w,
                             idx, j + 1)

RemoveAscending(w, idx, k) == RemoveAscendingFrom(w, idx, 1)

\* for n in sorted(matching_index, reverse=True): self.remove_ndx(n)
RECURSIVE RemoveDescending(_, _, _)
RemoveDescending(w, idx, k) ==
    IF k = 0 THEN w
    ELSE RemoveDescending(remove_ndx(w, idx[k], TRUE), idx, k - 1)

\* Docked.remove(match_all, **remarks_and_values)
remove(w, match_all, crit) ==
    LET m == findall(w.entries, match_all, crit)
    IN IF m.err # "" THEN World(w.entries, w.host, m.err)
       ELSE RemoveDescending(w, m.idx, Len(m.idx))

\* the loop of remove_without_objects over the objects the host lacks
RECURSIVE RemoveObjects(_, _)
RemoveObjects(w, todo) ==
    IF todo = {} THEN w
    ELSE LET object_to_remove == CHOOSE o \in todo : TRUE
         IN RemoveObjects(remove(w, TRUE, ObjectCriterion(object_to_remove)),
                          todo \ {object_to_remove})

\* Docked.remove_without_objects
remove_without_objects(w) ==
    RemoveObjects(w, objects(w.entries) \ get_names(w.host))

\* the setdefault loop of equalize_remarks for one entry
RECURSIVE Backfill(_, _)
Backfill(d, keys) ==
    IF keys = {} THEN d
    ELSE LET remark == CHOOSE k \in keys : TRUE
         IN Backfill(SetDefault(d, remark, None), keys \ {remark})

\* a load epilogue that prunes but back-fills nothing
equalize_remarks_skipped(w) == remove_without_objects(w)

\* an equalize_remarks that prunes one orphaned entry per call
equalize_remarks_one(w) ==
    LET orphans == {i \in DOMAIN w.entries : w.entries[i].object \notin get_names(w.host)}
    IN IF orphans = {} THEN w
       ELSE World(DeleteAt(w.entries, CHOOSE i \in orphans : \A j \in orphans : i <= j),
                  w.host, "")

\* Docked.equalize_remarks
equalize_remarks(w) ==
    LET w1 == remove_without_objects(w)
        all_remarks == remarks(w1.entries)
    IN World([i \in DOMAIN w1.entries |->
                [w1.entries[i] EXCEPT !.remarks = Backfill(@, all_remarks)]],
             w1.host, w1.err)

\* Docked.modify_entries(remark, old_value, new_value)
modify_entries(es, remark, old_value, new_value) ==
    [i \in DOMAIN es |->
        IF remark = "object"
        THEN (IF Str(es[i].object) = old_value
              THEN [es[i] EXCEPT !.object = new_value.s] ELSE es[i])
        ELSE IF remark = "state"
        THEN (IF Num(es[i].state) = old_value
              THEN [es[i] EXCEPT !.state = new_value.n] ELSE es[i])
        ELSE (IF es[i].remarks[remark] = old_value
              THEN [es[i] EXCEPT !.remarks = DictSet(@, remark, new_value)] ELSE es[i])]

\* Docked.copy_to_object(ndx, object, keep_docked, extract).  cmd.create on a
\* selection of an object the host lacks raises CmdException when the host's
\* raise_exceptions setting is on (raising), and does nothing when it is off.
copy_to_object(w, ndx, object, keep_docked, extract, raising) ==
    LET entry == w.entries[ndx]
        es == IF keep_docked
              THEN Append(w.entries, Entry(object, 1, entry.remarks))
              ELSE w.entries
    IN IF entry.object \notin get_names(w.host)
       THEN (IF raising THEN World(es, w.host, "CmdException")
             ELSE IF extract THEN remove_ndx(World(es, w.host, ""), ndx, TRUE)
             ELSE World(es, w.host, ""))
       ELSE LET h == HostCreate(w.host, object, entry.object, entry.state, 1)
            IN IF extract THEN remove_ndx(World(es, h, ""), ndx, TRUE)
               ELSE World(es, h, "")

(***************************************************************************)
(* Docked.sort.  sorted() orders by '<' on the key values, which Python     *)
(* defines between two numbers and between two strings and for no pair     *)
(* that holds None; any sort of two or more elements compares the elements *)
(* that end up adjacent.                                                   *)
(***************************************************************************)
\* the characters of the model's strings, in code point order
CodePoints == " -.0123456789;abcdefghijklmnopqrstuvwxyz"

RECURSIVE CodePointFrom(_, _)
CodePointFrom(c, i) ==
    IF i > Len(CodePoints) THEN i
    ELSE IF SubSeq(CodePoints, i, i) = c THEN i
    ELSE CodePointFrom(c, i + 1)

\* ord(c)
CodePoint(c) == CodePointFrom(c, 1)

\* a < b between two str
RECURSIVE StrLess(_, _)
StrLess(a, b) ==
    IF b = "" THEN FALSE
    ELSE IF a = "" THEN TRUE
    ELSE IF SubSeq(a, 1, 1) = SubSeq(b, 1, 1)
    THEN StrLess(SubSeq(a, 2, Len(a)), SubSeq(b, 2, Len(b)))
    ELSE CodePoint(SubSeq(a, 1, 1)) < CodePoint(SubSeq(b, 1, 1))

\* whether a < b is defined
Comparable(a, b) == a.t = b.t /\ a.t # "none"

\* a < b, for comparable a and b
Less(a, b) == IF a.t = "num" THEN a.n < b.n ELSE StrLess(a.s, b.s)

\* the position in es of the element sorted() puts at each place: stable in
\* both directions
SortedOrder(es, remark, reverse) ==
    LET key(i) == es[i].remarks[remark]
        first(i, j) == IF reverse THEN Less(key(j), key(i)) ELSE Less(key(i), key(j))
        place(i) == 1 + Cardinality({j \in DOMAIN es :
                        first(j, i) \/ (~first(i, j) /\ j < i)})
    IN [p \in DOMAIN es |-> CHOOSE i \in DOMAIN es : place(i) = p]

\* sorted(es, key=lambda k: k['remarks'][remark], reverse=reverse)
Sorted(es, remark, reverse) ==
    LET order == SortedOrder(es, remark, reverse)
    IN [p \in DOMAIN es |-> es[order[p]]]

\* Docked.sort(remark, reverse)
sort(w, remark, reverse) ==
    LET es == w.entries
    IN IF remark \notin remarks(es) THEN World(es, w.host, "ValueError")
       ELSE IF \E i \in DOMAIN es : remark \notin DOMAIN es[i].remarks
       THEN World(es, w.host, "KeyError")
       ELSE IF \E i, j \in DOMAIN es :
                  i # j /\ ~Comparable(es[i].remarks[remark], es[j].remarks[remark])
       THEN World(es, w.host, "TypeError")
       ELSE World(Sorted(es, remark, reverse), w.host, "")

(***************************************************************************)
(* Export.  Text is a string; a written file is the sequence of its lines  *)
(* without their newline.                                                  *)
(***************************************************************************)
UpperCase == "ABCDEFGHIJKLMNOPQRSTUVWXYZ"
LowerCase == "abcdefghijklmnopqrstuvwxyz"

RECURSIVE LowerFrom(_, _)
LowerFrom(c, i) ==
    IF i > Len(UpperCase) THEN c
    ELSE IF SubSeq(UpperCase, i, i) = c THEN SubSeq(LowerCase, i, i)
    ELSE LowerFrom(c, i + 1)

\* str.lower()
RECURSIVE Lower(_)
Lower(s) ==
    IF s = "" THEN ""
    ELSE LowerFrom(SubSeq(s, 1, 1), 1) \o Lower(SubSeq(s, 2, Len(s)))

\* s.rpartition('.')[-1]: what follows the last '.', or all of s without one
RECURSIVE Suffix(_, _)
Suffix(s, i) ==
    IF i = 0 THEN s
    ELSE IF SubSeq(s, i, i) = "." THEN SubSeq(s, i + 1, Len(s))
    ELSE Suffix(s, i - 1)

\* the remarks the loaders store as int; the other numbers are float
IntRemarks == {"Cluster", "ClusterRank", "MODEL", "Conf", "RANK", "structure"}

\* str(entry['remarks'][r])
str(r, v) ==
    IF v.t = "str" THEN v.s
    ELSE IF v.t = "none" THEN "None"
    ELSE IF r \in IntRemarks THEN ToString(v.n)
    ELSE ToString(v.n) \o ".0"

\* joiner.join(fields)
RECURSIVE Join(_, _)
Join(fields, joiner) ==
    IF fields = <<>> THEN ""
    ELSE IF Len(fields) = 1 THEN fields[1]
    ELSE fields[1] \o joiner \o Join(Tail(fields), joiner)

\* the orders list(d.keys()) can give: a dict of the model does not keep the
\* order its keys were inserted in, which for back-filled keys is the
\* iteration order of a set
KeyOrders(d) ==
    {order \in [1..Cardinality(DOMAIN d) -> DOMAIN d] :
        \A i, j \in DOMAIN order : i # j => order[i] # order[j]}

\* an export that looks at the format before it looks at the registry
export_data_format_first(es, filename, format, order) ==
    LET fmt == Lower(IF format = "" THEN Lower(Suffix(filename, Len(filename))) ELSE format)
    IN IF fmt \notin {"csv", "txt"} THEN [err |-> "ValueError", out |-> <<>>]
       ELSE IF Len(es) = 0 THEN [err |-> "CmdException", out |-> <<>>]
       ELSE [err |-> "", out |-> <<Join(order, ";")>>]

\* an export whose txt header has no '#' prefix
export_data_plain_header(es, filename, format, order) ==
    LET fmt == Lower(IF format = "" THEN Lower(Suffix(filename, Len(filename))) ELSE format)
        joiner == IF fmt = "csv" THEN ";" ELSE "  "
    IN IF Len(es) = 0 THEN [err |-> "CmdException", out |-> <<>>]
       ELSE IF fmt \notin {"csv", "txt"} THEN [err |-> "ValueError", out |-> <<>>]
       ELSE [err |-> "",
             out |-> <<Join(order, joiner)>> \o
                     [i \in DOMAIN es |->
                        Join([r \in DOMAIN order |-> str(order[r], es[i].remarks[order[r]])],
                             joiner)]]

\* Docked.export_data(filename, format), with order the keys of the first
\* entry's remarks as list() gives them: the error raised and the lines written
export_data(es, filename, format, order) ==
    LET fmt == Lower(IF format = "" THEN Lower(Suffix(filename, Len(filename))) ELSE format)
        joiner == IF fmt = "csv" THEN ";" ELSE "  "
    IN IF Len(es) = 0 THEN [err |-> "CmdException", out |-> <<>>]
       ELSE IF fmt \notin {"csv", "txt"} THEN [err |-> "ValueError", out |-> <<>>]
       ELSE IF \E i \in DOMAIN es : Range(order) \ DOMAIN es[i].remarks # {}
       THEN [err |-> "KeyError", out |-> <<>>]
       ELSE [err |-> "",
             out |-> <<(IF fmt = "txt" THEN "#  " ELSE "") \o Join(order, joiner)>> \o
                     [i \in DOMAIN es |->
                        Join([r \in DOMAIN order |-> str(order[r], es[i].remarks[order[r]])],
                             joiner)]]

\* io.export_docked_data(filename, format='')
export_docked_data(es, filename, format, order) ==
    LET suffix == Lower(Suffix(filename, Len(filename)))
    IN export_data(es, filename,
                   IF format = "" THEN (IF suffix \in {"csv", "txt"} THEN suffix ELSE "csv")
                   ELSE format,
                   order)

(***************************************************************************)
(* Dock4 text.  A stripped, non-empty line of the cluster is classed by    *)
(* what load_dock4 asks of it: its first word upper-cased (kw) and, for a  *)
(* REMARK line, whether remark_re matches it (ok) with which key and       *)
(* number.                                                                 *)
(***************************************************************************)
RemarkLine(key, n) == [kw |-> "REMARK", ok |-> TRUE, key |-> key, val |-> n]
FreeRemarkLine == [kw |-> "REMARK", ok |-> FALSE, key |-> "", val |-> 0]
AtomLine == [kw |-> "ATOM", ok |-> FALSE, key |-> "", val |-> 0]
OtherLine == [kw |-> "TER", ok |-> FALSE, key |-> "", val |-> 0]

IsAtom(line) == line.kw \in {"ATOM", "HETATM"}

\* the first position from i on whose line does not satisfy the run's test
RECURSIVE RunEnd(_, _, _)
RunEnd(cluster, i, remark_run) ==
    IF i > Len(cluster) THEN i
    ELSE IF (IF remark_run THEN cluster[i].ok ELSE IsAtom(cluster[i]))
         THEN RunEnd(cluster, i + 1, remark_run)
         ELSE i

\* remarks[key] = value over the matching lines i..j-1
RECURSIVE ReadRemarks(_, _, _, _)
ReadRemarks(cluster, i, j, d) ==
    IF i >= j THEN d
    ELSE ReadRemarks(cluster, i + 1, j, DictSet(d, cluster[i].key, Num(cluster[i].val)))

\* the while loop of load_dock4 from line i on.  bound: whether the local
\* 'remarks' has been assigned; poses: the remarks of the entries read so far.
\* cluster[i] past the last line raises IndexError; a REMARK line remark_re
\* does not match leaves i where it is, and the loop never ends ("hang").
RECURSIVE Scan(_, _, _, _, _)
Scan(cluster, i, bound, remarks_i, poses) ==
    IF i > Len(cluster) THEN [status |-> "", poses |-> poses]
    ELSE IF cluster[i].kw = "REMARK"
    THEN LET j == RunEnd(cluster, i, TRUE)
         IN IF j = i THEN [status |-> "hang", poses |-> poses]
            ELSE IF j > Len(cluster) THEN [status |-> "IndexError", poses |-> poses]
            ELSE Scan(cluster, j, TRUE, ReadRemarks(cluster, i, j, EmptyRemarks), poses)
    ELSE IF IsAtom(cluster[i])
    THEN LET j == RunEnd(cluster, i, FALSE)
         IN IF j > Len(cluster) THEN [status |-> "IndexError", poses |-> poses]
            ELSE IF ~bound THEN [status |-> "UnboundLocalError", poses |-> poses]
            ELSE Scan(cluster, j, bound, remarks_i, Append(poses, remarks_i))
    ELSE Scan(cluster, i + 1, bound, remarks_i, poses)

\* the mode argument: the integer a Python caller passes, or the string the
\* host's command line passes
ModeInt(n) == [t |-> "int", v |-> ToString(n)]
ModeStr(v) == [t |-> "str", v |-> v]

\* mode == '1', mode == '2'
IsMode1(mode) == mode = ModeStr("1")
IsMode2(mode) == mode = ModeStr("2")

HasAll(poses, key) == \A i \in DOMAIN poses : key \in DOMAIN poses[i]

\* mode 1: the positions of the poses with ClusterRank == 0
Rank0(poses) == {i \in DOMAIN poses : poses[i]["ClusterRank"] = Num(0)}

\* mode 2: object + '-' + str(e['remarks']['Cluster'])
ClusterObject(object, pose) == object \o "-" \o ToString(pose["Cluster"].n)

\* mode 2: len(pdb_tmp[object_new]) once pose i has been appended to it
PosesSoFar(object, poses, i) ==
    Cardinality({j \in 1..i : ClusterObject(object, poses[j]) = ClusterObject(object, poses[i])})

\* mode 2: e['internal']['state'] = len(pdb_tmp[object_new]) + 1
Mode2State(object, poses, i) == PosesSoFar(object, poses, i) + 1

\* mode 2: cmd.read_pdbstr for every object of pdb_tmp
RECURSIVE LoadClusters(_, _, _, _)
LoadClusters(h, object, poses, i) ==
    IF i > Len(poses) THEN h
    ELSE LoadClusters(HostLoad(h, ClusterObject(object, poses[i]), 1), object, poses, i + 1)

\* self.entries.extend(entries); self.equalize_remarks()
ExtendEqualize(w, new_entries, h) ==
    equalize_remarks(World(w.entries \o new_entries, h, ""))

\* Docked.load_dock4(cluster, object, mode)
Docked_load_dock4(w, cluster, object, mode) ==
    LET scan == Scan(cluster, 1, FALSE, EmptyRemarks, <<>>)
        poses == scan.poses
    IN IF scan.status # "" THEN World(w.entries, w.host, scan.status)
       ELSE IF IsMode1(mode)
       THEN IF ~HasAll(poses, "ClusterRank") THEN World(w.entries, w.host, "CmdException")
            ELSE LET kept == SelectPos(poses, Rank0(poses), 1)
                 IN ExtendEqualize(w, [n \in DOMAIN kept |-> Entry(object, n, kept[n])],
                                   HostLoad(w.host, object, Len(kept)))
       ELSE IF IsMode2(mode)
       THEN IF ~HasAll(poses, "Cluster") THEN World(w.entries, w.host, "CmdException")
            ELSE ExtendEqualize(w,
                    [n \in DOMAIN poses |->
                        Entry(ClusterObject(object, poses[n]),
                              Mode2State(object, poses, n), poses[n])],
                    LoadClusters(w.host, object, poses, 1))
       ELSE ExtendEqualize(w, [n \in DOMAIN poses |-> Entry(object, n, poses[n])],
                           HostLoad(w.host, object, Len(poses)))

\* io.load_dock4(filename, object='', mode), the file found
io_load_dock4(w, file, mode) ==
    Docked_load_dock4(w, file.lines, non_repeated_object(w.host, file.name), mode)

\* io.load_dock4(filename, object, mode) on a path: CmdException when
\* os.path.isfile(filename) is false
io_load_dock4_path(w, file, object, mode, is_file) ==
    IF ~is_file THEN World(w.entries, w.host, "CmdException")
    ELSE Docked_load_dock4(w, file.lines, non_repeated_object(w.host, object), mode)

\* io.load_chimerax(filename), the descriptor read.  fetch: "ok" when urlopen
\* answers, "HTTPError" when it raises; local: which of the target and the
\* cluster file lie in the descriptor's directory.  The fallback tests
\* os.path.isfile(target_file) twice.
load_chimerax(w, file, fetch, local) ==
    LET target_object == non_repeated_object(w.host, "target")
        clusters_object == non_repeated_object(w.host, "clusters")
        with_target == World(w.entries, HostLoad(w.host, target_object, 1), "")
    IN IF fetch = "ok"
       THEN Docked_load_dock4(with_target, file.lines, clusters_object, ModeInt(0))
       ELSE IF "target" \in local /\ "target" \in local
       THEN io_load_dock4_path(with_target, file, clusters_object, ModeInt(0),
                               "clusters" \in local)
       ELSE w

(***************************************************************************)
(* The other loaders.  A file is given by what the loader reads off it:    *)
(* its base name and, per pose, the remarks its text yields.               *)
(***************************************************************************)
\* Docked.load_pdbqt(file, object): one state and one entry per pose
Docked_load_pdbqt(w, poses, object) ==
    ExtendEqualize(w, [n \in DOMAIN poses |-> Entry(object, n, poses[n])],
                   HostLoad(w.host, object, Len(poses)))

\* io.load_pdbqt(filename, object='')
io_load_pdbqt(w, file) ==
    Docked_load_pdbqt(w, file.poses, non_repeated_object(w.host, file.name))

\* the rows of the energy table load_pydock loads: among the first max_n,
\* those whose Conf has a "*_{Conf}.pdb" file
Loaded(file, max_n) ==
    {n \in DOMAIN file.poses : n <= max_n /\ file.poses[n]["Conf"].n \in file.conf_files}

\* Docked.load_pydock(filename, object, max_n).  max_n is the int a Python
\* caller passes (and the default), or the str the host's command line passes;
\* 'n+1 > max_n' on the first row raises TypeError for a str, once the
\* receptor is loaded.
Docked_load_pydock(w, file, object, max_n) ==
    LET rec_obj == non_repeated_object(w.host, object \o "_rec")
        lig_obj == non_repeated_object(w.host, object \o "_lig")
        rows == SelectPos(file.poses, Loaded(file, max_n.n), 1)
    IN IF ~file.rec_lig THEN World(w.entries, w.host, "CmdException")
       ELSE IF max_n.t # "num" /\ file.poses # <<>>
       THEN World(w.entries, HostLoad(w.host, rec_obj, 1), "TypeError")
       ELSE ExtendEqualize(w, [n \in DOMAIN rows |-> Entry(lig_obj, n, rows[n])],
                           HostLoad(HostLoad(w.host, rec_obj, 1), lig_obj, Len(rows)))

\* io.load_pydock(filename, object='', max_n)
io_load_pydock(w, file, max_n) == Docked_load_pydock(w, file, file.name, max_n)

\* Docked.load_xyz(filename, object): the comments stay strings, since no str
\* is an instance of float
Docked_load_xyz(w, comments, object) ==
    equalize_remarks(World(
        w.entries \o [n \in DOMAIN comments |->
                        Entry(object, n,
                              [k \in {"structure", "value"} |->
                                  IF k = "structure" THEN Num(n) ELSE Str(comments[n])])],
        HostLoad(w.host, object, Len(comments)), ""))

\* io.load_xyz(filename, object='')
io_load_xyz(w, file) ==
    Docked_load_xyz(w, file.comments, non_repeated_object(w.host, file.name))

(***************************************************************************)
(* misc.set_name_catcher.  The host's native rename takes effect when the  *)
(* old name is an object of the host; otherwise it fails, by raising or by *)
(* returning an error result, depending on the host's version (native).    *)
(***************************************************************************)
NativeRenames(h, old_name) == old_name \in get_names(h)

HostRename(h, old_name, new_name) ==
    [o \in (DOMAIN h \ {old_name}) \cup {new_name} |->
        IF o = new_name THEN h[old_name] ELSE h[o]]

\* try: r = cmd._cmd.set_name(...)  except: pass
\* else: get_docked().modify_entries('object', old_name, new_name)
\* if _raising(r): raise CmdException
set_name_catcher(w, old_name, new_name, native) ==
    IF NativeRenames(w.host, old_name)
    THEN World(modify_entries(w.entries, "object", Str(old_name), Str(new_name)),
               HostRename(w.host, old_name, new_name), "")
    ELSE IF native = "raise"
    THEN World(w.entries, w.host, "CmdException")
    ELSE World(modify_entries(w.entries, "object", Str(old_name), Str(new_name)),
               w.host, "CmdException")

(***************************************************************************)
(* The files and arguments the operations are tried on.                    *)
(***************************************************************************)
Pose3(cluster, rank, deltaG) ==
    [k \in {"Cluster", "ClusterRank", "deltaG"} |->
        IF k = "Cluster" THEN Num(cluster)
        ELSE IF k = "ClusterRank" THEN Num(rank) ELSE Num(deltaG)]

Pose1(key, n) == [k \in {key} |-> Num(n)]

\* the text of a pose whose remarks are Cluster, ClusterRank and deltaG
Text3(cluster, rank, deltaG) ==
    <<RemarkLine("Cluster", cluster), RemarkLine("ClusterRank", rank),
      RemarkLine("deltaG", deltaG), AtomLine, AtomLine, OtherLine>>

Text1(key, n) == <<RemarkLine(key, n), AtomLine, OtherLine>>

\* a SwissDock cluster file: two poses of cluster 0 and one of cluster 1
DockFile ==
    [name |-> "dock",
     poses |-> <<Pose3(0, 0, -9), Pose3(0, 1, -8), Pose3(1, 0, -7)>>,
     lines |-> Text3(0, 0, -9) \o Text3(0, 1, -8) \o Text3(1, 0, -7)]

\* a Dock4 file whose poses carry no Cluster and no ClusterRank
PlainFile ==
    [name |-> "plain",
     poses |-> <<Pose1("deltaG", -5), Pose1("deltaG", -4)>>,
     lines |-> Text1("deltaG", -5) \o Text1("deltaG", -4)]

\* a Dock4 file with a remark named like the internal field 'object'
ObjFile ==
    [name |-> "obj",
     poses |-> <<Pose1("object", 1)>>,
     lines |-> Text1("object", 1)]

\* a Dock4 file that ends with the last coordinate line of its last pose
TailFile ==
    [name |-> "tail",
     poses |-> <<Pose1("deltaG", -3), Pose1("deltaG", -2)>>,
     lines |-> Text1("deltaG", -3) \o <<RemarkLine("deltaG", -2), AtomLine, AtomLine>>]

\* a Dock4 file that opens with a REMARK line of free text
NoteFile ==
    [name |-> "note",
     poses |-> <<Pose1("deltaG", -6)>>,
     lines |-> <<FreeRemarkLine>> \o Text1("deltaG", -6)]

Dock4Files == {DockFile, PlainFile}

\* the files and modes the text scan is tried on
ScanFiles == {DockFile, PlainFile, TailFile}

ScanModes == {ModeInt(0), ModeStr("0"), ModeInt(1), ModeStr("1"), ModeInt(2), ModeStr("2")}

Modes == {ModeInt(0), ModeInt(1), ModeInt(2), ModeStr("1"), ModeStr("2")}

PdbqtFile ==
    [name |-> "vina",
     poses |-> <<[k \in {"MODEL", "affinity"} |-> IF k = "MODEL" THEN Num(1) ELSE Num(-6)],
                 [k \in {"MODEL", "affinity"} |-> IF k = "MODEL" THEN Num(2) ELSE Num(-5)]>>]

\* an energy table of three rows; the file of Conf 2 is missing
PydockFile ==
    [name |-> "pyd",
     rec_lig |-> TRUE,
     conf_files |-> {1, 3},
     poses |-> <<[k \in {"Conf", "RANK"} |-> IF k = "Conf" THEN Num(3) ELSE Num(1)],
                 [k \in {"Conf", "RANK"} |-> IF k = "Conf" THEN Num(2) ELSE Num(2)],
                 [k \in {"Conf", "RANK"} |-> IF k = "Conf" THEN Num(1) ELSE Num(3)]>>]

\* a trajectory whose comment lines are free text
XyzFile == [name |-> "traj", comments |-> <<"first", "a;b  c">>]

\* a trajectory whose comment lines are numbers
NumXyzFile == [name |-> "nums", comments |-> <<"7", "12">>]

\* the criteria find, findall and remove are tried on
Criteria(es) ==
    {ObjectCriterion(o) : o \in objects(es)}
    \cup {[k \in {"state"} |-> Num(n)] : n \in 1..2}
    \cup {[k \in {"Cluster"} |-> Num(0)],
          [k \in {"ClusterRank", "state"} |-> IF k = "state" THEN Num(1) ELSE Num(0)],
          [k \in {"nokey"} |-> Num(0)]}

(***************************************************************************)
(* The 'load' override.                                                    *)
(***************************************************************************)
\* os.path.basename: what follows the last '/'
RECURSIVE Basename(_, _)
Basename(s, i) ==
    IF i = 0 THEN s
    ELSE IF SubSeq(s, i, i) = "/" THEN SubSeq(s, i + 1, Len(s))
    ELSE Basename(s, i - 1)

\* "".join(s.rpartition('.')[:-2]): what precedes the last '.', '' without one
RECURSIVE Stem(_, _)
Stem(s, i) ==
    IF i = 0 THEN ""
    ELSE IF SubSeq(s, i, i) = "." THEN SubSeq(s, 1, i - 1)
    ELSE Stem(s, i - 1)

\* io.load_ext(filename, object='', format=''): the loaders it calls, in
\* order, and what they make of the registry and the host; each loader reads
\* off the file a sample of the content it looks for
load_ext(w, filename, format) ==
    LET base == Basename(filename, Len(filename))
        object == IF format = "" THEN Stem(base, Len(base)) ELSE ""
        fmt == Lower(IF format = "" THEN Suffix(base, Len(base)) ELSE format)
        \* 'if not object: object = os.path.basename(filename).split('.')[0]'
        named == IF object = "" THEN base ELSE object
    IN IF fmt = "chimerax"
       THEN [calls |-> <<"load_chimerax">>,
             w |-> load_chimerax(w, [lines |-> Text1("deltaG", -5)], "ok", {})]
       ELSE IF fmt = "dock4"
       THEN [calls |-> <<"load_dock4">>,
             w |-> io_load_dock4_path(w, [lines |-> Text1("deltaG", -5)], named,
                                      ModeInt(0), TRUE)]
       ELSE IF fmt \in {"ene", "enerst"}
       THEN [calls |-> <<"load_pydock">>,
             w |-> Docked_load_pydock(w,
                        [rec_lig |-> TRUE, conf_files |-> {1},
                         poses |-> <<[k \in {"Conf", "RANK"} |-> Num(1)]>>],
                        named, Num(100))]
       ELSE IF fmt = "pdbqt"
       THEN [calls |-> <<"load_pdbqt">>,
             w |-> Docked_load_pdbqt(w, PdbqtFile.poses, non_repeated_object(w.host, named))]
       ELSE [calls |-> <<"importing.load">>,
             w |-> World(w.entries, HostLoad(w.host, named, 1), "")]

(***************************************************************************)
(* The session.  pymol.session.PyViewDock is absent ("none"), the dict     *)
(* Docked.data gives ("dict"), or a whole Docked object saved by version   *)
(* 0.3.1 or older ("object").                                              *)
(***************************************************************************)
\* [header for headers in headers_default.values() for header in headers]
headers_default ==
    <<"MODEL", "affinity", "RMSD l.b.", "RMSD u.b.", "ITER + INTRA", "INTER", "INTRA",
      "CONF_INDEPENDENT", "UNBOUND", "Flexibility Score", "Cluster", "ClusterRank",
      "deltaG", "RANK", "Total", "structure", "value">>

NoSession == [shape |-> "none", entries |-> <<>>, headers |-> <<>>]

\* set_docked: session.PyViewDock = docked.data, whose 'entries' and 'headers'
\* are the handle's own lists
set_docked(es, hs) == [shape |-> "dict", entries |-> es, headers |-> hs]

\* a get_docked that makes a new registry of a legacy session
get_docked_fresh(s) ==
    IF s.shape \in {"none", "object"} THEN [entries |-> <<>>, headers |-> headers_default]
    ELSE [entries |-> s.entries, headers |-> s.headers]

\* get_docked(): the entries and headers of the handle it returns.  A legacy
\* object gives its entries and headers to the dict Docked.__init__ reads.
get_docked(s) ==
    IF s.shape = "none" THEN [entries |-> <<>>, headers |-> headers_default]
    ELSE [entries |-> s.entries, headers |-> s.headers]

\* a clear that forgets the entries and deletes nothing
clear_entries_only(w) == World(<<>>, w.host, "")

\* Docked.clear
clear(w) ==
    LET RECURSIVE DeleteAll(_, _)
        DeleteAll(h, objs) ==
            IF objs = {} THEN h
            ELSE LET obj == CHOOSE o \in objs : TRUE
                 IN DeleteAll(HostDelete(h, obj), objs \ {obj})
    IN World(<<>>, DeleteAll(w.host, objects(w.entries)), "")

(***************************************************************************)
(* The state machine.  last records the last operation and its arguments;  *)
(* the registry and the host before it are the unprimed variables of the   *)
(* step.                                                                   *)
(***************************************************************************)
EmptyHost == [o \in {} |-> <<>>]

NoOp ==
    [op |-> "", err |-> "", ndx |-> 0, update |-> TRUE, object |-> "", new |-> "",
     match_all |-> TRUE, crit |-> EmptyRemarks, keep |-> FALSE, extract |-> FALSE,
     mode |-> ModeInt(0), poses |-> <<>>, native |-> "", res |-> 0,
     found |-> <<>>, lines |-> <<>>, max_n |-> None, format |-> "", out |-> <<>>,
     remark |-> "", reverse |-> FALSE, filename |-> "", order |-> <<>>,
     fetch |-> "", local |-> {}, calls |-> <<>>, headers |-> <<>>, shape |-> ""]

Here == World(entries, host, "")

Op(name) == [NoOp EXCEPT !.op = name]

Idle == last.op = ""

\* a command runs on the idle host through the handle get_docked() gave it,
\* takes the handle's entries and the host to w, and leaves the list es and
\* the headers hs in the session
Stores(w, rec, n_loads, es, hs) ==
    /\ Idle
    /\ Len(w.entries) <= MaxEntries
    /\ loads + n_loads <= MaxLoads
    /\ entries' = w.entries
    /\ host' = w.host
    /\ last' = [rec EXCEPT !.err = w.err, !.headers = hs]
    /\ loads' = loads + n_loads
    /\ session' = set_docked(es, hs)
    /\ UNCHANGED gui

\* a command that changes the handle's list in place: the list is the one the
\* session holds
Becomes(w, rec, n_loads) ==
    Stores(w, rec, n_loads, w.entries, get_docked(session).headers)

\* the command returns and the host is idle again; the next command takes its
\* handle from get_docked().  A command whose loop never ends never returns.
Return ==
    /\ ~Idle
    /\ last.err # "hang"
    /\ last' = NoOp
    /\ entries' = get_docked(session).entries
    /\ UNCHANGED <<host, loads, session, gui>>

Init ==
    /\ entries = <<>>
    /\ host = EmptyHost
    /\ last = NoOp
    /\ loads = 0
    /\ session = NoSession
    /\ gui = [open |-> FALSE, headers |-> <<>>, available |-> {}, drawn |-> <<>>]

\* the load_dock4 command
Load4(files, modes) ==
    \E file \in files, mode \in modes :
        Becomes(io_load_dock4(Here, file, mode),
                [Op("load_dock4") EXCEPT !.mode = mode, !.poses = file.poses,
                    !.lines = file.lines, !.object = non_repeated_object(host, file.name)], 1)

LoadDock4 == Load4(Dock4Files, Modes)

LoadCluster == Load4({DockFile, ObjFile}, {ModeInt(0)})

LoadPdbqt ==
    Becomes(io_load_pdbqt(Here, PdbqtFile),
            [Op("load_pdbqt") EXCEPT !.poses = PdbqtFile.poses,
                !.object = non_repeated_object(host, PdbqtFile.name)], 1)

\* the load_pydock command
LoadPydockOf(max_ns) ==
    \E max_n \in max_ns :
        Becomes(io_load_pydock(Here, PydockFile, max_n),
                [Op("load_pydock") EXCEPT !.poses = PydockFile.poses, !.max_n = max_n,
                    !.object = non_repeated_object(host, PydockFile.name \o "_lig")], 1)

LoadPydock == LoadPydockOf({Num(2), Num(100)})

\* max_n as a Python caller and as the command line give it
LoadTable == LoadPydockOf({Num(2), Num(100), Str("2")})

\* the load_xyz command
LoadXyzOf(files) ==
    \E file \in files :
        Becomes(io_load_xyz(Here, file),
                [Op("load_xyz") EXCEPT !.poses = file.comments,
                    !.object = non_repeated_object(host, file.name)], 1)

LoadXyz == LoadXyzOf({XyzFile})

LoadFrames == LoadXyzOf({XyzFile, NumXyzFile})

LoadText == Load4(ScanFiles, ScanModes)

LoadPlain == Load4({PlainFile}, {ModeInt(0)})

LoadNoted == Load4({NoteFile}, ScanModes)

LoadMode0 == Load4({DockFile, PlainFile}, {ModeInt(0)})

\* Docked.remove_ndx on an entry of the registry, with the default update=True
\* every caller uses
RemoveAt ==
    \E ndx \in DOMAIN entries :
        Becomes(remove_ndx(Here, ndx, TRUE),
                [Op("remove_ndx") EXCEPT !.ndx = ndx, !.update = TRUE,
                    !.object = entries[ndx].object], 0)

\* Docked.remove
RemoveMatching ==
    \E crit \in Criteria(entries), match_all \in BOOLEAN :
        Becomes(remove(Here, match_all, crit),
                [Op("remove") EXCEPT !.crit = crit, !.match_all = match_all,
                    !.res = Len(findall(entries, match_all, crit).idx)], 0)

\* Docked.remove_without_objects
PruneOrphans == Becomes(remove_without_objects(Here), Op("remove_without_objects"), 0)

\* Docked.find
Find ==
    \E crit \in Criteria(entries), match_all \in BOOLEAN :
        LET r == find(entries, match_all, crit)
        IN Becomes(World(entries, host, r.err),
                   [Op("find") EXCEPT !.crit = crit, !.match_all = match_all,
                       !.res = r.ndx], 0)

\* Docked.findall
FindAll ==
    \E crit \in Criteria(entries), match_all \in BOOLEAN :
        LET r == findall(entries, match_all, crit)
        IN Becomes(World(entries, host, r.err),
                   [Op("findall") EXCEPT !.crit = crit, !.match_all = match_all,
                       !.found = r.idx], 0)

\* the set_name command, on an object of the host or of the registry
Rename ==
    \E old_name \in get_names(host) \cup objects(entries),
       new_name \in {"lig"} \ get_names(host),
       native \in {"raise", "error"} :
        Becomes(set_name_catcher(Here, old_name, new_name, native),
                [Op("set_name") EXCEPT !.object = old_name, !.new = new_name,
                    !.native = native], 0)

\* Docked.copy_to_object
CopyEntry ==
    \E ndx \in DOMAIN entries, keep \in BOOLEAN, extract \in BOOLEAN,
       raising \in BOOLEAN :
        Becomes(copy_to_object(Here, ndx, "copy", keep, extract, raising),
                [Op("copy_to_object") EXCEPT !.ndx = ndx, !.new = "copy",
                    !.keep = keep, !.extract = extract, !.object = entries[ndx].object,
                    !.native = IF raising THEN "raise" ELSE "error"], 1)

\* Docked.copy_to_object to a name neither the host nor the registry uses
CopyFresh ==
    /\ "copy" \notin get_names(host) \cup objects(entries)
    /\ CopyEntry

\* the remark names sort is tried on
SortRemarks == {"deltaG", "Cluster", "ClusterRank", "value", "nokey"}

\* Docked.sort: 'self.entries = sorted(...)' binds the handle to a new list,
\* and the session keeps the list set_docked stored
Sort ==
    \E remark \in SortRemarks, reverse \in BOOLEAN :
        Stores(sort(Here, remark, reverse),
               [Op("sort") EXCEPT !.remark = remark, !.reverse = reverse], 0,
               entries, get_docked(session).headers)

\* a caller sorts and then removes an entry through the same handle.  The
\* session's list keeps its order and the removed entry; its other entries are
\* the dicts of the handle's list, renumbered with them.
SortRemoveAt ==
    \E remark \in SortRemarks, reverse \in BOOLEAN, ndx \in DOMAIN entries :
        LET sorted == sort(Here, remark, reverse)
            w == remove_ndx(sorted, ndx, TRUE)
            order == SortedOrder(entries, remark, reverse)
            stored == [i \in DOMAIN entries |->
                        IF i = order[ndx] THEN entries[i]
                        ELSE LET p == CHOOSE q \in DOMAIN order : order[q] = i
                             IN w.entries[IF p < ndx THEN p ELSE p - 1]]
        IN /\ sorted.err = ""
           /\ Stores(w, [Op("sort; remove_ndx") EXCEPT !.remark = remark,
                            !.reverse = reverse, !.ndx = ndx,
                            !.object = sorted.entries[ndx].object],
                     0, stored, get_docked(session).headers)

\* Docked.clear: self.__init__() makes new lists and stores them
Clear ==
    Stores(clear(Here),
           [Op("clear") EXCEPT !.res = Cardinality(objects(entries) \cap get_names(host))],
           0, <<>>, headers_default)

\* the destinations and format arguments export is tried on
Filenames == {"out.csv", "out.TXT", "out"}

Formats == {"", "csv", "txt", "xls"}

\* the export_docked_data command, or Docked.export_data called directly
Export ==
    \E filename \in Filenames, format \in Formats, direct \in BOOLEAN,
       order \in (IF entries = <<>> THEN {<<>>} ELSE KeyOrders(entries[1].remarks)) :
        LET r == IF direct THEN export_data(entries, filename, format, order)
                 ELSE export_docked_data(entries, filename, format, order)
        IN Becomes(World(entries, host, r.err),
                   [Op(IF direct THEN "export_data" ELSE "export_docked_data")
                       EXCEPT !.filename = filename, !.format = format,
                              !.order = order, !.out = r.out], 0)

\* the load_chimerax command; the server answers or fails, and the
\* descriptor's directory holds any of the two files
LoadChimerax ==
    \E file \in Dock4Files, fetch \in {"ok", "HTTPError"},
       local \in SUBSET {"target", "clusters"} :
        Becomes(load_chimerax(Here, file, fetch, local),
                [Op("load_chimerax") EXCEPT !.fetch = fetch, !.local = local,
                    !.poses = file.poses], 1)

\* the file names and format arguments the load command is tried on
ExtNames ==
    {"a.pdbqt", "a.PDBQT", "b.dock4", "dir/b.x.Dock4", "c.chimerax", "d.ene",
     "d.eneRST", "e.pdb", "pdbqt"}

\* the load command
LoadExt ==
    \E filename \in ExtNames, format \in {"", "pdbqt", "DOCK4", "pdb"} :
        LET r == load_ext(Here, filename, format)
        IN Becomes(r.w, [Op("load") EXCEPT !.filename = filename, !.format = format,
                            !.calls = r.calls], 1)

\* the session files the user can open: what each holds of the registry and
\* of the host
SavedSessions ==
    {[session |-> NoSession, host |-> EmptyHost],
     [session |-> NoSession, host |-> HostLoad(EmptyHost, "mol", 1)],
     [session |-> [shape |-> "object", entries |-> <<>>, headers |-> <<"deltaG">>],
      host |-> EmptyHost],
     [session |-> [shape |-> "object",
                   entries |-> <<Entry("old", 1, Pose1("deltaG", -1)),
                                 Entry("old", 2, Pose1("deltaG", -2))>>,
                   headers |-> <<"deltaG">>],
      host |-> HostLoad(EmptyHost, "old", 2)],
     [session |-> set_docked(<<Entry("new", 1, Pose1("deltaG", -1))>>, headers_default),
      host |-> HostLoad(HostLoad(EmptyHost, "new", 1), "mol", 1)]}

\* the user opens a session file: the host's objects and pymol.session are
\* replaced by the saved ones
OpenSession ==
    \E saved \in SavedSessions :
        /\ Idle
        /\ last' = [Op("open") EXCEPT !.shape = saved.session.shape]
        /\ host' = saved.host
        /\ session' = saved.session
        /\ UNCHANGED <<entries, loads, gui>>

\* get_docked(): the handle it returns, which Docked.__init__ stores
GetDocked ==
    LET docked == get_docked(session)
    IN Stores(World(docked.entries, host, ""),
              [Op("get_docked") EXCEPT !.shape = session.shape], 0,
              docked.entries, docked.headers)

\* Docked.equalize_remarks called on its own
Equalize ==
    LET w == equalize_remarks(Here)
    IN Becomes(w, [Op("equalize_remarks") EXCEPT !.res = Len(entries) - Len(w.entries)], 0)

\* draw_table: the columns it displays are the headers without repeats that
\* are in available_headers
draw_table(headers, available_headers) ==
    SelectPos(headers,
              {i \in DOMAIN headers :
                    /\ headers[i] \in available_headers
                    /\ \A j \in 1..(i - 1) : headers[j] # headers[i]}, 1)

\* list.remove(x): the list without the first x
ListRemove(list, x) ==
    DeleteAt(list, CHOOSE i \in DOMAIN list :
                        list[i] = x /\ \A j \in 1..(i - 1) : list[j] # x)

\* a handler of the Columns menu changes the list 'headers' and redraws
Redraws(rec, headers) ==
    /\ Idle
    /\ gui.open
    /\ Len(headers) <= MaxHeaders
    /\ last' = rec
    /\ gui' = [gui EXCEPT !.headers = headers,
                          !.drawn = draw_table(headers, gui.available)]
    /\ UNCHANGED <<entries, host, loads, session>>

\* run_gui: the window opens on the registry pruned of its orphans; the global
\* 'headers' is kept when it names an available column, and is the registry's
\* headers otherwise
RunGui ==
    LET docked == remove_without_objects(Here)
        available_headers == remarks(docked.entries) \cup {"object"}
        docked_headers == get_docked(session).headers
        headers == IF \E i \in DOMAIN gui.headers : gui.headers[i] \in available_headers
                   THEN gui.headers
                   ELSE SelectPos(docked_headers,
                            {i \in DOMAIN docked_headers :
                                docked_headers[i] \in available_headers}, 1)
    IN /\ Idle
       /\ entries' = docked.entries
       /\ host' = docked.host
       /\ last' = [Op("run_gui") EXCEPT !.err = docked.err, !.headers = docked_headers]
       /\ session' = set_docked(docked.entries, docked_headers)
       /\ gui' = [open |-> TRUE, headers |-> headers, available |-> available_headers,
                  drawn |-> draw_table(headers, available_headers)]
       /\ UNCHANGED loads

\* Columns > Show: the menu lists the remarks that are not displayed
ShowHeader ==
    \E header \in remarks(entries) \ Range(gui.drawn) :
        Redraws([Op("show_header") EXCEPT !.remark = header], Append(gui.headers, header))

\* Columns > Hide: the menu lists the displayed columns
HideHeader ==
    \E header \in Range(gui.drawn) :
        Redraws([Op("hide_header") EXCEPT !.remark = header],
                ListRemove(gui.headers, header))

\* Columns > Show/Hide All; docked.remarks is a set, which extend() walks in
\* any order
ToggleAllHeaders ==
    LET n_available_headers ==
            IF "object" \in Range(gui.headers) THEN Cardinality(gui.available)
            ELSE Cardinality(gui.available) - 1
    IN IF Len(gui.headers) < n_available_headers
       THEN \E order \in KeyOrders([r \in remarks(entries) |-> None]) :
                Redraws(Op("toggle_all_headers"), gui.headers \o order)
       ELSE Redraws(Op("toggle_all_headers"), <<>>)

\* Columns > Show/Hide Objects
ToggleObjects ==
    Redraws(Op("toggle_objects"),
            IF "object" \in Range(gui.headers) THEN ListRemove(gui.headers, "object")
            ELSE <<"object">> \o gui.headers)

\* the user deletes an object in the host
UserDelete ==
    \E name \in get_names(host) :
        Becomes(World(entries, HostDelete(host, name), ""),
                [Op("delete") EXCEPT !.object = name], 0)

\* the registry under removal
Next ==
    \/ LoadCluster
    \/ RemoveAt
    \/ RemoveMatching
    \/ PruneOrphans
    \/ UserDelete
    \/ Return

Spec == Init /\ [][Next]_vars

\* the registry under queries and renaming
NextFind ==
    \/ LoadCluster
    \/ Find
    \/ Rename
    \/ UserDelete
    \/ Return

SpecFind == Init /\ [][NextFind]_vars

\* the registry under queries and removal by criteria
NextQuery ==
    \/ LoadCluster
    \/ FindAll
    \/ Find
    \/ RemoveMatching
    \/ UserDelete
    \/ Return

SpecQuery == Init /\ [][NextQuery]_vars

\* the registry under sorting
NextSort ==
    \/ LoadMode0
    \/ LoadXyz
    \/ Sort
    \/ SortRemoveAt
    \/ Return

SpecSort == Init /\ [][NextSort]_vars

\* the registry under export
NextExport ==
    \/ LoadPlain
    \/ LoadFrames
    \/ Export
    \/ Return

SpecExport == Init /\ [][NextExport]_vars

\* the Dock4 loader under its files and modes
NextScan ==
    \/ LoadText
    \/ UserDelete
    \/ Return

SpecScan == Init /\ [][NextScan]_vars

\* the pyDock and XYZ loaders
NextTable ==
    \/ LoadTable
    \/ LoadFrames
    \/ UserDelete
    \/ Return

SpecTable == Init /\ [][NextTable]_vars

\* the registry under copying
NextCopy ==
    \/ LoadCluster
    \/ CopyEntry
    \/ RemoveAt
    \/ UserDelete
    \/ Return

SpecCopy == Init /\ [][NextCopy]_vars

\* the loaders
NextLoad ==
    \/ LoadDock4
    \/ LoadPdbqt
    \/ LoadPydock
    \/ LoadXyz
    \/ UserDelete
    \/ Return

SpecLoad == Init /\ [][NextLoad]_vars

\* the ChimeraX loader
NextChimerax ==
    \/ LoadChimerax
    \/ UserDelete
    \/ Return

SpecChimerax == Init /\ [][NextChimerax]_vars

\* the load override
NextExt ==
    \/ LoadExt
    \/ UserDelete
    \/ Return

SpecExt == Init /\ [][NextExt]_vars

\* the registry and what the session stores of it
NextSession ==
    \/ LoadCluster
    \/ RemoveAt
    \/ Rename
    \/ CopyEntry
    \/ Sort
    \/ Clear
    \/ Return

SpecSession == Init /\ [][NextSession]_vars

\* the registry across session files
NextOpen ==
    \/ OpenSession
    \/ GetDocked
    \/ LoadCluster
    \/ RemoveAt
    \/ Return

SpecOpen == Init /\ [][NextOpen]_vars

\* the registry under clear
NextClear ==
    \/ OpenSession
    \/ LoadCluster
    \/ UserDelete
    \/ Clear
    \/ Equalize
    \/ Return

SpecClear == Init /\ [][NextClear]_vars

\* the Dock4 loader under its files, those with free-text REMARK lines among
\* them; the host takes up the next command once a command has ended
NextText ==
    \/ LoadText
    \/ LoadNoted
    \/ UserDelete
    \/ Return

SpecText == Init /\ [][NextText]_vars /\ WF_vars(Return)

\* the registry under the loader's own names
NextUnique ==
    \/ LoadDock4
    \/ RemoveAt
    \/ RemoveMatching
    \/ PruneOrphans
    \/ Sort
    \/ CopyFresh
    \/ Return

SpecUnique == Init /\ [][NextUnique]_vars

\* the table window
NextGui ==
    \/ LoadPdbqt
    \/ RunGui
    \/ ShowHeader
    \/ HideHeader
    \/ ToggleAllHeaders
    \/ ToggleObjects
    \/ Return

SpecGui == Init /\ [][NextGui]_vars

(***************************************************************************)
(* Properties.  A step property reads the registry and the host before the *)
(* command as the unprimed variables and after it as the primed ones.      *)
(***************************************************************************)
Positions(es, object) == {i \in DOMAIN es : es[i].object = object}

States(es, object) == {es[i].state : i \in Positions(es, object)}

\* each object's entries carry exactly the states 1..N, N the number of its entries
Numbered(es) ==
    \A o \in objects(es) : States(es, o) = 1..Cardinality(Positions(es, o))

\* each object's entries carry exactly the states 1..M, M the number of indices
\* findall(object=o) returns
NumberedAsFound(es) ==
    \A o \in objects(es) :
        LET M == Len(findall(es, TRUE, ObjectCriterion(o)).idx)
        IN States(es, o) = 1..M /\ Cardinality(Positions(es, o)) = M

\* C1: from a registry whose objects' entries are numbered 1..N, every
\* remove_ndx with update on an entry of an object the host knows leaves each
\* object's surviving entries numbered 1..M without gap or duplicate, M the
\* number of indices findall(object=...) returns.
C1_ContiguousAfterRemove ==
    [][(/\ last'.op = "remove_ndx"
        /\ last'.update
        /\ last'.object \in get_names(host)
        /\ Numbered(entries))
       => NumberedAsFound(entries')]_vars

LoadOps == {"load_dock4", "load_pdbqt", "load_pydock", "load_xyz"}

\* the remarks a loader read for the poses of last's file
SourceRemarks(l) ==
    IF l.op = "load_xyz"
    THEN {[k \in {"structure", "value"} |->
             IF k = "structure" THEN Num(n) ELSE Str(l.poses[n])] : n \in DOMAIN l.poses}
    ELSE Range(l.poses)

\* d holds the remarks of src, and None under every other key
BackfilledFrom(d, src) ==
    /\ DOMAIN src \subseteq DOMAIN d
    /\ \A k \in DOMAIN d : d[k] = IF k \in DOMAIN src THEN src[k] ELSE None

\* C2: after a load that completes, all entries of the registry, old and new,
\* have the same remark keys, and an entry holds None under every key its own
\* source (the entry it was before the load, or the pose it was read from) lacks.
C2_EqualizedAfterLoad ==
    [][(last'.op \in LoadOps /\ last'.err = "")
       => /\ \A i, j \in DOMAIN entries' :
                DOMAIN entries'[i].remarks = DOMAIN entries'[j].remarks
          /\ \A i \in DOMAIN entries' :
                \/ \E j \in DOMAIN entries :
                      /\ entries[j].object = entries'[i].object
                      /\ entries[j].state = entries'[i].state
                      /\ BackfilledFrom(entries'[i].remarks, entries[j].remarks)
                \/ \E src \in SourceRemarks(last') :
                      BackfilledFrom(entries'[i].remarks, src)]_vars

\* C2 witness: a load of one format has back-filled a key in an entry left by a
\* load of another format
C2_Witness ==
    /\ last.op = "load_xyz"
    /\ last.err = ""
    /\ \E i \in DOMAIN entries :
          /\ "deltaG" \in DOMAIN entries[i].remarks
          /\ entries[i].remarks["deltaG"] # None
          /\ "value" \in DOMAIN entries[i].remarks
          /\ entries[i].remarks["value"] = None

\* the last n elements of s
LastN(s, n) == SubSeq(s, Len(s) - n + 1, Len(s))

\* C3: a Dock4 load in mode 2 registers, for the j-th pose of the file, an entry
\* of the object <base>-<Cluster> whose state is the number of poses with that
\* Cluster value up to the j-th, so that each object's entries carry 1..k in
\* file order.
C3_Mode2StatesFromOne ==
    (/\ last.op = "load_dock4"
     /\ last.mode = ModeStr("2")
     /\ last.err = ""
     /\ HasAll(last.poses, "Cluster"))
    => LET n == Len(last.poses)
           new == LastN(entries, n)
       IN /\ Len(entries) >= n
          /\ \A j \in 1..n :
                /\ new[j].object = last.object \o "-" \o ToString(last.poses[j]["Cluster"].n)
                /\ new[j].state =
                      Cardinality({i \in 1..j :
                          last.poses[i]["Cluster"] = last.poses[j]["Cluster"]})
                /\ new[j].object \in get_names(host)

\* C4: a Dock4 load in mode 1, given as the integer 1 or as the string '1',
\* registers exactly the poses whose ClusterRank is 0, in file order, as the
\* states 1..k of one object, and no entry for any other pose.
C4_Mode1KeepsRankZero ==
    [][(/\ last'.op = "load_dock4"
        /\ last'.mode \in {ModeInt(1), ModeStr("1")}
        /\ last'.err = ""
        /\ HasAll(last'.poses, "ClusterRank"))
       => LET poses == last'.poses
              rank0 == {i \in DOMAIN poses : poses[i]["ClusterRank"] = Num(0)}
              kept == SelectPos(poses, rank0, 1)
              k == Len(kept)
              new == LastN(entries', k)
          IN /\ Len(entries') >= k
             /\ Len(entries') <= Len(entries) + k
             /\ \A j \in 1..k :
                   /\ new[j].object = last'.object
                   /\ new[j].state = j
                   /\ BackfilledFrom(new[j].remarks, kept[j])]_vars

\* C5: remove deletes exactly the entries at the indices findall returned for
\* the same criteria when the call began; the others remain, in their order,
\* with their object and remarks.
C5_RemoveExactlyMatches ==
    [][(last'.op = "remove" /\ last'.err = "")
       => LET m == findall(entries, last'.match_all, last'.crit).idx
              kept == SelectPos(entries, DOMAIN entries \ Range(m), 1)
          IN /\ Len(entries') = Len(kept)
             /\ \A j \in DOMAIN kept :
                   /\ entries'[j].object = kept[j].object
                   /\ entries'[j].remarks = kept[j].remarks]_vars

\* C5 witness: a remove of two or more entries of an object the host knows has
\* left an entry of that object, renumbered to state 1
C5_Witness ==
    /\ last.op = "remove"
    /\ last.err = ""
    /\ last.res >= 2
    /\ \E i \in DOMAIN entries :
          /\ entries[i].object \in get_names(host)
          /\ entries[i].state = 1
          /\ entries[i].remarks["deltaG"] = Num(-7)

\* C6: after remove_without_objects every remaining entry's object is an object
\* of the host, and the entries whose object the host had before the call are
\* all still there, unchanged and in order.
C6_PruneLeavesKnownOnly ==
    [][last'.op = "remove_without_objects"
       => /\ \A i \in DOMAIN entries' : entries'[i].object \in get_names(host')
          /\ entries' = SelectPos(entries,
                {i \in DOMAIN entries : entries[i].object \in get_names(host)}, 1)]_vars

\* C7 as claimed: remove_ndx on an entry whose object the host no longer knows
\* raises nothing and leaves the entry sequence and the host unchanged.
C7_OrphanRemoveIsNoOp ==
    [][(last'.op = "remove_ndx" /\ last'.object \notin get_names(host))
       => (last'.err = "" /\ entries' = entries /\ host' = host)]_vars

\* C7 amended: remove_ndx on an entry whose object the host no longer knows
\* raises nothing, deletes that entry and only it, renumbers no other entry,
\* and leaves the host unchanged.
C7_OrphanRemoveDeletesEntryOnly ==
    [][(last'.op = "remove_ndx" /\ last'.object \notin get_names(host))
       => /\ last'.err = ""
          /\ entries' = DeleteAt(entries, last'.ndx)
          /\ host' = host]_vars

\* C7 witness: an entry of an object the host lacks has been removed, and a
\* sibling with a higher state is still in the registry
C7_Witness ==
    /\ last.op = "remove_ndx"
    /\ last.object \notin get_names(host)
    /\ \E i \in DOMAIN entries :
          entries[i].object = last.object /\ entries[i].state = 3

\* entries with every object old_name replaced by new_name
Renamed(es, old_name, new_name) ==
    [i \in DOMAIN es |->
        IF es[i].object = old_name THEN [es[i] EXCEPT !.object = new_name] ELSE es[i]]

\* C8: when the native rename takes effect (the host has the new name), the
\* entries of the old name, and nothing else, are moved to the new name; when
\* it fails, by raising or by an error result, no entry's object changes.
C8_RenameFollowsHost ==
    [][last'.op = "set_name"
       => IF last'.new \in get_names(host')
          THEN entries' = Renamed(entries, last'.object, last'.new)
          ELSE /\ Len(entries') = Len(entries)
               /\ \A i \in DOMAIN entries : entries'[i].object = entries[i].object]_vars

\* C9: copy_to_object appends one entry (the source's remarks, the new object,
\* state 1) exactly when keep_docked; removes the source entry, renumbering as
\* remove_ndx does, exactly when extract; and changes nothing else.
C9_CopyChangesRegistry ==
    [][last'.op = "copy_to_object"
       => LET src == entries[last'.ndx]
              rest == IF last'.extract
                      THEN remove_ndx(World(entries, host, ""), last'.ndx, TRUE).entries
                      ELSE entries
          IN entries' = IF last'.keep
                        THEN Append(rest, Entry(last'.new, 1, src.remarks))
                        ELSE rest]_vars

\* C10: for criteria findall accepts, find returns the lowest index of the list
\* findall returns, and None exactly when that list is empty.
C10_FindIsLowestOfFindall ==
    (last.op = "find" /\ last.err = "")
    => LET l == findall(entries, last.match_all, last.crit).idx
       IN /\ (l = <<>>) <=> (last.res = NotFound)
          /\ l # <<>> => /\ last.res \in Range(l)
                         /\ \A x \in Range(l) : last.res <= x

\* C10 witness: a find whose criteria two or more entries match
C10_Witness ==
    /\ last.op = "find"
    /\ last.err = ""
    /\ last.res # NotFound
    /\ Len(findall(entries, last.match_all, last.crit).idx) >= 2


\* the value a criterion on key k is to be compared with: the entry's own object
\* or state for 'object' and 'state', its remark of that name for any other key
FieldOf(e, k) ==
    IF k = "object" THEN Str(e.object)
    ELSE IF k = "state" THEN Num(e.state)
    ELSE e.remarks[k]

\* C11: findall returns, in ascending order, exactly the indices of the entries
\* for which all criteria (match_all) or at least one (otherwise) equal the
\* entry's value, 'object' and 'state' being compared with the entry's object
\* and state and any other key with the remark of that name.
C11_FindallMatchesFields ==
    (last.op = "findall" /\ last.err = "")
    => last.found =
          SelectPos([i \in DOMAIN entries |-> i],
              {i \in DOMAIN entries :
                  IF last.match_all
                  THEN \A k \in DOMAIN last.crit : FieldOf(entries[i], k) = last.crit[k]
                  ELSE \E k \in DOMAIN last.crit : FieldOf(entries[i], k) = last.crit[k]}, 1)

\* C12: findall, find and remove fail with the invalid-criteria error whenever a
\* criterion key is neither a remark key of some entry nor 'object' nor
\* 'state', and the failing call leaves the registry and the host as they were.
C12_InvalidCriteriaFailFirst ==
    [][(/\ last'.op \in {"findall", "find", "remove"}
        /\ (DOMAIN last'.crit \ remarks(entries)) \ {"object", "state"} # {})
       => /\ last'.err = "ValueError"
          /\ entries' = entries
          /\ host' = host]_vars

\* C12 witness: a remove by a key no entry carries has failed on a registry that
\* has entries of other keys
C12_Witness ==
    /\ last.op = "remove"
    /\ last.err = "ValueError"
    /\ "Cluster" \in DOMAIN last.crit
    /\ entries # <<>>


\* C13: sort by a remark some entry carries, back-filled or not, succeeds and
\* leaves a permutation of the previous sequence ordered by that remark in the
\* requested direction, entries of equal value in their previous order; sort by
\* a remark no entry carries fails with ValueError and changes nothing.
C13_SortStablePermutation ==
    [][last'.op = "sort"
       => IF last'.remark \in remarks(entries)
          THEN /\ last'.err = ""
               /\ \E p \in Permutations(DOMAIN entries) :
                     /\ \A i \in DOMAIN entries : entries'[i] = entries[p[i]]
                     /\ \A i, j \in DOMAIN entries :
                           i < j =>
                              LET a == entries'[i].remarks[last'.remark]
                                  b == entries'[j].remarks[last'.remark]
                                  after == Comparable(a, b) /\
                                           (IF last'.reverse THEN Less(a, b) ELSE Less(b, a))
                              IN /\ ~after
                                 /\ (a = b) => p[i] < p[j]
          ELSE last'.err = "ValueError" /\ entries' = entries]_vars


ExportOps == {"export_data", "export_docked_data"}

\* C14: export of an empty registry fails with the no-entries CmdException for
\* every destination and every format argument, valid or not, writes nothing
\* and leaves the registry empty.
C14_ExportEmptyFails ==
    [][(last'.op \in ExportOps /\ entries = <<>>)
       => /\ last'.err = "CmdException"
          /\ last'.out = <<>>
          /\ entries' = <<>>]_vars

\* C14 witness: an export of the empty registry with a format that is not
\* supported has failed with CmdException
C14_Witness ==
    /\ last.op \in ExportOps
    /\ last.format = "xls"
    /\ entries = <<>>
    /\ last.err = "CmdException"

\* the separator of a format
Separator(format) == IF format = "csv" THEN ";" ELSE "  "

\* the fields of entry e under the keys of order, as strings
Fields(e, order) == [r \in DOMAIN order |-> str(order[r], e.remarks[order[r]])]

\* C15: export of n >= 1 entries as csv or txt writes n+1 lines: the first
\* entry's remark keys in that entry's key order, then per entry, in registry
\* order, its values for those keys in that order, joined by ';' (csv) or two
\* spaces (txt), the txt header alone prefixed with '#'; the registry is not
\* modified.
C15_ExportLayout ==
    [][(/\ last'.op \in ExportOps
        /\ last'.format \in {"csv", "txt"}
        /\ entries # <<>>)
       => LET sep == Separator(last'.format)
              order == last'.order
              out == last'.out
          IN /\ last'.err = ""
             /\ order \in KeyOrders(entries[1].remarks)
             /\ Len(out) = Len(entries) + 1
             /\ out[1] = (IF last'.format = "txt" THEN "#  " ELSE "") \o Join(order, sep)
             /\ \A i \in DOMAIN entries : out[i + 1] = Join(Fields(entries[i], order), sep)
             /\ entries' = entries]_vars

\* C15 witness: a txt export of three or more entries has written its lines
C15_Witness ==
    /\ last.op \in ExportOps
    /\ last.format = "txt"
    /\ last.err = ""
    /\ Len(entries) >= 3
    /\ Len(last.out) = Len(entries) + 1

\* line.split(sep): the fields of s from position i on, the current one begun at b
RECURSIVE SplitFrom(_, _, _, _)
SplitFrom(s, sep, b, i) ==
    IF i + Len(sep) - 1 > Len(s) THEN <<SubSeq(s, b, Len(s))>>
    ELSE IF SubSeq(s, i, i + Len(sep) - 1) = sep
    THEN <<SubSeq(s, b, i - 1)>> \o SplitFrom(s, sep, i + Len(sep), i + Len(sep))
    ELSE SplitFrom(s, sep, b, i + 1)

Split(s, sep) == SplitFrom(s, sep, 1, 1)

\* C16: for a registry the loaders built, each data line of a csv or txt export,
\* split on the format's separator, gives as many fields as the header has keys,
\* each the string form of the entry's value for that key, free-text values
\* included.
C16_ExportRoundTrip ==
    (/\ last.op \in ExportOps
     /\ last.format \in {"csv", "txt"}
     /\ last.err = "")
    => \A i \in DOMAIN entries :
          Split(last.out[i + 1], Separator(last.format)) = Fields(entries[i], last.order)


\* C17: a Dock4 load in mode 1 of poses of which one lacks ClusterRank, and in
\* mode 2 of poses of which one lacks Cluster, fails, adds no entry and creates
\* no object or state in the host.
C17_MissingRemarkFails ==
    [][(/\ last'.op = "load_dock4"
        /\ \/ /\ last'.mode \in {ModeInt(1), ModeStr("1")}
              /\ ~HasAll(last'.poses, "ClusterRank")
           \/ /\ last'.mode \in {ModeInt(2), ModeStr("2")}
              /\ ~HasAll(last'.poses, "Cluster"))
       => /\ last'.err # ""
          /\ entries' = entries
          /\ host' = host]_vars

\* the number of maximal runs of consecutive ATOM/HETATM lines in a text
AtomRuns(lines) ==
    Cardinality({i \in DOMAIN lines :
        IsAtom(lines[i]) /\ (i = 1 \/ ~IsAtom(lines[i - 1]))})

\* C18: a Dock4 load in mode 0 succeeds and adds one entry per maximal run of
\* ATOM/HETATM lines, in file order, on one object with the states 1..N, with
\* or without Cluster/ClusterRank remarks and also when the last run ends the
\* text.
C18_Mode0EntryPerRun ==
    [][(last'.op = "load_dock4" /\ last'.mode \in {ModeInt(0), ModeStr("0")})
       => LET N == AtomRuns(last'.lines)
              new == LastN(entries', N)
          IN /\ last'.err = ""
             /\ Len(entries') >= N
             /\ Len(entries') <= Len(entries) + N
             /\ \A j \in 1..N :
                   /\ new[j].object = last'.object
                   /\ new[j].state = j
                   /\ BackfilledFrom(new[j].remarks, last'.poses[j])
             /\ last'.object \in get_names(host')
             /\ Len(host'[last'.object]) = N]_vars


Digits == "0123456789"

RECURSIVE DigitFrom(_, _)
DigitFrom(c, i) ==
    IF i > Len(Digits) THEN -1
    ELSE IF SubSeq(Digits, i, i) = c THEN i - 1
    ELSE DigitFrom(c, i + 1)

\* the number a string of decimal digits writes, -1 when it is not one
RECURSIVE NatOf(_, _)
NatOf(s, acc) ==
    IF s = "" THEN acc
    ELSE LET d == DigitFrom(SubSeq(s, 1, 1), 1)
         IN IF d < 0 THEN -1 ELSE NatOf(SubSeq(s, 2, Len(s)), 10 * acc + d)

\* the limit max_n stands for: 100, '100' and 100 alike
LimitOf(max_n) == IF max_n.t = "num" THEN max_n.n ELSE NatOf(max_n.s, 0)

\* C19: load_pydock succeeds and adds entries for exactly the rows among the
\* first max_n whose Conf has a *_{Conf}.pdb file, a row without file being
\* skipped; the added entries carry the states 1..k of the ligand object in row
\* order, k the number of rows loaded.
C19_PydockSkipsMissing ==
    [][last'.op = "load_pydock"
       => LET poses == last'.poses
              rows == SelectPos(poses,
                         {n \in DOMAIN poses :
                             /\ n <= LimitOf(last'.max_n)
                             /\ poses[n]["Conf"].n \in PydockFile.conf_files}, 1)
              k == Len(rows)
              new == LastN(entries', k)
          IN /\ last'.err = ""
             /\ Len(entries') >= k
             /\ Len(entries') <= Len(entries) + k
             /\ \A j \in 1..k :
                   /\ new[j].object = last'.object
                   /\ new[j].state = j
                   /\ BackfilledFrom(new[j].remarks, rows[j])]_vars

\* a comment line that reads as a number: decimal digits
LooksNumeric(s) == s # "" /\ NatOf(s, 0) >= 0

\* C20: load_xyz adds one entry per frame, with the frame's comment line as its
\* remark 'value'; when the comment lines read as numbers the values stored are
\* numbers, not strings.
C20_XyzNumericComments ==
    [][(last'.op = "load_xyz" /\ last'.err = "")
       => LET comments == last'.poses
              N == Len(comments)
              new == LastN(entries', N)
              numeric == \A n \in DOMAIN comments : LooksNumeric(comments[n])
          IN /\ Len(entries') >= N
             /\ Len(entries') <= Len(entries) + N
             /\ \A j \in 1..N :
                   /\ new[j].object = last'.object
                   /\ new[j].state = j
                   /\ new[j].remarks["value"] =
                         IF numeric THEN Num(NatOf(comments[j], 0)) ELSE Str(comments[j])]_vars

\* C21: when the fetch fails with a server error and the target file or the
\* cluster file is missing from the descriptor's directory, load_chimerax
\* loads nothing into the host and adds no entry, so no failure can follow a
\* partial load.
C21_FallbackNeedsBothFiles ==
    [][(last'.op = "load_chimerax" /\ last'.fetch = "HTTPError"
            /\ last'.local # {"target", "clusters"})
       => (entries' = entries /\ host' = host)]_vars

\* the file suffix: what follows the last '.' of the file's name, nothing when
\* the name has no '.'
FileSuffix(filename) ==
    LET base == Basename(filename, Len(filename))
    IN IF \E i \in 1..Len(base) : SubSeq(base, i, i) = "."
       THEN Suffix(base, Len(base)) ELSE ""

\* the loader that answers for a suffix or format, compared case-insensitively
LoaderFor(key) ==
    LET k == Lower(key)
    IN IF k = "pdbqt" THEN "load_pdbqt"
       ELSE IF k = "dock4" THEN "load_dock4"
       ELSE IF k = "chimerax" THEN "load_chimerax"
       ELSE IF k \in {"ene", Lower("eneRST")} THEN "load_pydock"
       ELSE "importing.load"

\* C22: a load call invokes exactly one loader: the one that answers for the
\* explicit format when one is given and for the file suffix otherwise, the
\* host's native loader for every suffix that is none of pdbqt, dock4,
\* chimerax, ene, eneRST.
C22_LoadDispatch ==
    (last.op = "load")
        => last.calls = <<LoaderFor(IF last.format # "" THEN last.format
                                    ELSE FileSuffix(last.filename))>>

\* C23: after load, remove_ndx, set_name, copy_to_object, sort or clear through
\* a handle from get_docked, the session stores the entries of the handle, in
\* the handle's order, and its headers, so that the next get_docked returns
\* them.
C23_SessionFollowsHandle ==
    (last.op \in {"load_dock4", "remove_ndx", "set_name", "copy_to_object", "sort", "clear"})
        => /\ get_docked(session).entries = entries
           /\ get_docked(session).headers = last.headers

\* C24 as claimed: get_docked returns a registry with no entries and the
\* default headers when the session holds no registry and when it holds one
\* in the legacy shape.
C24_LegacyIsRecreated ==
    [][(last'.op = "get_docked" /\ session.shape \in {"none", "object"})
       => (entries' = <<>> /\ last'.headers = headers_default)]_vars

\* C24 amended: get_docked returns a registry with no entries and the default
\* headers when the session holds no registry; when the session holds one in
\* the legacy shape it returns a registry with the entries and the headers of
\* the legacy object, and the session holds them in the dict shape afterwards.
C24_LegacyIsConverted ==
    [][(last'.op = "get_docked")
       => /\ session.shape = "none"
                => (entries' = <<>> /\ last'.headers = headers_default)
          /\ session.shape = "object"
                => (entries' = session.entries /\ last'.headers = session.headers)
          /\ session' = [shape |-> "dict", entries |-> entries',
                         headers |-> last'.headers]]_vars

\* C24 witness: get_docked has returned the two entries and the headers of a
\* legacy object
C24_Witness ==
    /\ last.op = "get_docked"
    /\ last.shape = "object"
    /\ Len(entries) = 2
    /\ last.headers = <<"deltaG">>
    /\ session.shape = "dict"

\* C25: clear leaves a registry with no entries and the default headers,
\* deletes from the host every object an entry referenced, and deletes no
\* other object of the host.
C25_ClearDeletesReferenced ==
    [][(last'.op = "clear")
       => /\ entries' = <<>>
          /\ get_docked(session') = [entries |-> <<>>, headers |-> headers_default]
          /\ last'.headers = headers_default
          /\ host' = [o \in DOMAIN host \ {entries[i].object : i \in DOMAIN entries}
                        |-> host[o]]]_vars

\* C25 witness: clear has deleted an object the entries referenced and left
\* an object no entry referenced in the host
C25_Witness ==
    /\ last.op = "clear"
    /\ last.res >= 1
    /\ get_names(host) = {"mol"}
    /\ entries = <<>>

\* C26: equalize_remarks is idempotent: called again with the host's objects
\* unchanged, it leaves the entries, their order and the host as the first
\* call left them.
C26_EqualizeIdempotent ==
    (last.op = "equalize_remarks") => equalize_remarks(Here) = Here

\* C26 witness: equalize_remarks has pruned two or more orphaned entries and
\* kept others
C26_Witness ==
    /\ last.op = "equalize_remarks"
    /\ last.res >= 2
    /\ entries # <<>>

\* the entries remove_ndx was called on: those of the handle, sorted first
\* when the caller sorted
RemovedFrom ==
    IF last'.op = "sort; remove_ndx"
    THEN Sorted(entries, last'.remark, last'.reverse)
    ELSE entries

\* C27: after remove_ndx with renumbering on an object the host knows, every
\* surviving entry of that object finds at its new state, in the rebuilt
\* object, the geometry the object held at the entry's old state, whatever
\* the order of the entries, sorted or not.
C27_RemoveKeepsGeometry ==
    [][(last'.op \in {"remove_ndx", "sort; remove_ndx"}
            /\ last'.object \in get_names(host))
       => LET before == DeleteAt(RemovedFrom, last'.ndx)
          IN \A i \in DOMAIN before :
                (before[i].object = last'.object
                    /\ before[i].state \in DOMAIN host[last'.object])
                => /\ last'.object \in get_names(host')
                   /\ entries'[i].state \in DOMAIN host'[last'.object]
                   /\ host'[last'.object][entries'[i].state]
                        = host[last'.object][before[i].state]]_vars

\* C28: the scan of load_dock4 ends on every finite list of lines: a REMARK
\* line that is not of the shape 'key: number' is skipped and does not stall
\* it, so every load_dock4 command ends and the host is idle again.
C28_ScanTerminates == (last.op = "load_dock4") ~> Idle

\* C29: in every state reached by loads under the loader's own names (the same
\* file more than once and mode 2 among them), remove_ndx, remove,
\* remove_without_objects, sort and copy_to_object to an unused name, no two
\* entries have the same object and state.
C29_UniqueObjectState ==
    \A i, j \in DOMAIN entries :
        (entries[i].object = entries[j].object /\ entries[i].state = entries[j].state)
            => i = j

\* C30: after any sequence of Show, Hide, Show/Hide All and Show/Hide Objects,
\* choosing Hide for a displayed remark column makes the redraw that follows
\* leave that column out.
C30_HiddenColumnIsOmitted ==
    (last.op = "hide_header" /\ last.remark \in remarks(entries))
        => last.remark \notin Range(gui.drawn)

=============================================================================
